---- MODULE Spec2Model ----
(***************************************************************************)
(* Model of src/libhidpp/hid/RawDevice_windows.cpp: the Windows RawDevice  *)
(* (construction over the sibling HID interfaces of a parent device, the   *)
(* report router, writeReport, the overlapped readReport with its          *)
(* AsyncRead helper, interruptRead) together with the part of the Win32    *)
(* I/O manager the code talks to (overlapped operations, events, the HID   *)
(* input queue of every interface).                                        *)
(***************************************************************************)
EXTENDS Integers, Sequences, FiniteSets, TLC

(* ------------------------------ bounds --------------------------------- *)
\* readReport calls made on one device in a behaviour
MaxCalls == 2
\* input reports the HID class driver queues per interface
MaxQueued == 1
\* writeReport calls made on one device in a behaviour
MaxWrites == 2
\* HID interfaces the DeviceEnumerator yields
MaxSiblings == 2
\* report ids 1..MaxReportId in the capability tables
MaxReportId == 2
\* entries of one button or value capability list handed to the merge
MaxMergeLen == 2
\* data indices 0..MaxDataIndex of those entries
MaxDataIndex == 3

(* ------------------------- program constants --------------------------- *)
WAIT_OBJECT_0 == 0
WAIT_TIMEOUT == 258
\* (DWORD) 0xFFFFFFFF, written as the signed value of the same 32 bits
WAIT_FAILED == -1

(* ------------------------------ inputs --------------------------------- *)
\* report.size () of the buffer the caller hands to readReport
BufSizes == {7, 16}
\* the timeout argument of readReport, in milliseconds
Timeouts == {-1, 0, 50}
\* report[0] and report.size () of the reports handed to writeReport
WriteIds == 0..3
WriteSizes == {7}

VARIABLES
    \* the RawDevice: _p->devices, _p->reports, _p->interrupted_event,
    \* _report_desc.collections, and the constructor's position and inputs
    rawDevice,
    other,              \* the RawDevice a copy is made of
    enumLeft,           \* interfaces the DeviceEnumerator has yet to yield
    \* one turn of the loop over the report types, on its own
    merge,              \* [stage, type, button, value, order, reports]
    \* kernel objects
    intr,               \* interrupted_event is signaled
    evt,                \* evt[i]: devices[i].event is signaled
    fileSig,            \* fileSig[i]: devices[i].file is signaled
    queued,             \* queued[i]: input reports waiting on interface i
    ops,                \* overlapped reads in flight in the I/O manager
    \* the thread in readReport
    rpc,                \* idle | issue | wait | blocked | switch | report_read
    callNo,             \* readReport calls started so far
    bufLen,             \* report.size ()
    timeout,
    idx,                \* position of the for loop over _p->devices
    reads,              \* std::vector<AsyncRead>, with each OVERLAPPED
    ret,                \* result of WaitForMultipleObjects
    readN,              \* DWORD read
    rres,               \* how the last readReport call ended
    \* history of the current readReport call
    hist,
    \* the thread in writeReport
    wpc,                \* idle | wait
    wcalls,             \* writeReport calls started so far
    wid,                \* report[0] of the last call
    wop,                \* the overlapped write: [iface, size, st]
    wres,               \* how the last writeReport call ended
    writes              \* the WriteFile calls made: <<handle, size>>

ioVars == <<intr, evt, fileSig, queued, ops>>
devVars == <<rawDevice, other, enumLeft, merge>>

\* std::vector<Device>: [file, event, caps]
devices == rawDevice.devices
\* std::map<uint8_t, HANDLE>
reports == rawDevice.reports
\* HANDLE of the interrupt event
interrupted_event == rawDevice.interrupted_event
readVars == <<rpc, callNo, bufLen, timeout, idx, reads, ret, readN, rres>>
writeVars == <<wpc, wcalls, wid, wop, wres, writes>>
vars == <<devVars, ioVars, readVars, hist, writeVars>>

NoResult == [kind |-> "none", val |-> 0]
Returned(n) == [kind |-> "ret", val |-> n]
Thrown(what) == [kind |-> "throw", val |-> what]

(* --------------------- report descriptor builder ---------------------- *)
\* ReportID::Type
Input == 8
Output == 9
Feature == 11
\* the order of the tuples of the loop over the report types
ReportTypes == <<Input, Output, Feature>>

NULL == 0
INVALID_HANDLE_VALUE == -1

\* A HIDP_BUTTON_CAPS / HIDP_VALUE_CAPS entry.  NotRange.DataIndex shares its
\* storage with Range.DataIndexMin, NotRange.Usage with Range.UsageMin.
Cap(page, di, id, range) ==
    [UsagePage |-> page, DataIndex |-> di, ReportID |-> id, IsRange |-> range,
     BitField |-> 2, Usage |-> di, UsageMax |-> di + 1]

\* add_field: the field made of one capability entry
FieldOf(cap) ==
    [bits |-> cap.BitField,
     usages |-> IF cap.IsRange
                THEN [kind |-> "range",
                      v |-> <<cap.UsagePage * 65536 + cap.Usage,
                              cap.UsagePage * 65536 + cap.UsageMax>>]
                ELSE [kind |-> "list",
                      v |-> <<cap.UsagePage * 65536 + cap.Usage>>]]

\* add_field: collection.reports.emplace (ReportID{report_type, cap.ReportID})
\* followed by emplace_back on the bucket
AddField(reps, type, cap) ==
    LET key == <<type, cap.ReportID>> IN
    IF key \in DOMAIN reps
    THEN [reps EXCEPT ![key] = Append(@, FieldOf(cap))]
    ELSE reps @@ (key :> <<FieldOf(cap)>>)

\* button_it->NotRange.DataIndex > value_it->NotRange.DataIndex
ButtonAfterValue(b, v) == b.DataIndex > v.DataIndex

\* button_it->NotRange.DataIndex < value_it->NotRange.DataIndex
ButtonBeforeValue(b, v) == b.DataIndex < v.DataIndex

RECURSIVE MergeHeadsOnly(_, _)
\* the merge loop without the two loops that drain what is left
MergeHeadsOnly(bs, vs) ==
    IF bs = <<>> \/ vs = <<>> THEN <<>>
    ELSE IF ButtonBeforeValue(Head(bs), Head(vs))
         THEN <<Head(bs)>> \o MergeHeadsOnly(Tail(bs), vs)
         ELSE <<Head(vs)>> \o MergeHeadsOnly(bs, Tail(vs))

RECURSIVE MergeOrder(_, _)
\* "Add fields ordered by DataIndex": the capability entries in the order the
\* three while loops hand them to add_field
MergeOrder(bs, vs) ==
    IF bs = <<>> THEN vs
    ELSE IF vs = <<>> THEN bs
    ELSE IF ButtonBeforeValue(Head(bs), Head(vs))
         THEN <<Head(bs)>> \o MergeOrder(Tail(bs), vs)
         ELSE <<Head(vs)>> \o MergeOrder(bs, Tail(vs))

RECURSIVE AddFields(_, _, _)
AddFields(reps, type, caps) ==
    IF caps = <<>> THEN reps
    ELSE AddFields(AddField(reps, type, Head(caps)), type, Tail(caps))

\* one turn of the loop over the report types
BuildType(reps, type, bs, vs) == AddFields(reps, type, MergeOrder(bs, vs))

NoReports == [k \in {} |-> <<>>]

\* the three turns: table.caps[t] holds the button and the value entries of
\* report type ReportTypes[t]
BuildReports(table) ==
    LET r1 == BuildType(NoReports, ReportTypes[1],
                        table.caps[1].button, table.caps[1].value)
        r2 == BuildType(r1, ReportTypes[2],
                        table.caps[2].button, table.caps[2].value)
    IN  BuildType(r2, ReportTypes[3],
                  table.caps[3].button, table.caps[3].value)

(* ---------------------------- construction ---------------------------- *)
\* HIDP_CAPS as HidP_GetCaps fills it from the capability table of an interface
CapsOf(table) ==
    [UsagePage |-> table.UsagePage, Usage |-> table.Usage,
     InputReportByteLength |-> table.InputReportByteLength,
     NumberButtonCaps |-> [t \in 1..3 |-> Len(table.caps[t].button)],
     NumberValueCaps |-> [t \in 1..3 |-> Len(table.caps[t].value)]]

\* {hdev, event}: caps is value-initialized
ZeroCaps ==
    [UsagePage |-> 0, Usage |-> 0, InputReportByteLength |-> 0,
     NumberButtonCaps |-> [t \in 1..3 |-> 0],
     NumberValueCaps |-> [t \in 1..3 |-> 0]]

\* ~RAII_HANDLE of every handle of hs: CloseHandle (_handle), whatever the
\* handle is.  Closing NULL or INVALID_HANDLE_VALUE closes nothing; closing a
\* handle that is not open any more is a second close of it.
CloseHandles(st, hs) ==
    LET real == hs \ {NULL, INVALID_HANDLE_VALUE} IN
    [st EXCEPT !.handles = @ \ real,
               !.closedTwice = @ \cup (real \ st.handles)]

\* a move that leaves the handle with its source, as a copy would
LeftInSource(h) == h

\* RAII_HANDLE (RAII_HANDLE &&other): what other holds after the move
MovedFrom(h) == INVALID_HANDLE_VALUE

\* _p->devices.push_back ({hdev, event}): the element is move-constructed
\* from a temporary Device, and the temporary is destroyed.
PushBack(st, hdev, event) ==
    CloseHandles([st EXCEPT !.devices = Append(@, [file |-> hdev,
                                                   event |-> event,
                                                   caps |-> ZeroCaps])],
                 {MovedFrom(hdev), MovedFrom(event)})

\* The handles the RAII_HANDLE members of *_p hold.
OwnedHandles(st) ==
    {st.devices[i].file : i \in 1..Len(st.devices)}
    \cup {st.devices[i].event : i \in 1..Len(st.devices)}
    \cup {st.interrupted_event}

\* The exception leaves the constructor: _p is destroyed, and with it every
\* RAII_HANDLE of _p->devices and _p->interrupted_event.
Throw(st, what) ==
    [CloseHandles(st, OwnedHandles(st)) EXCEPT
       !.status = "failed",
       !.err = what,
       !.devices = <<>>,
       !.reports = <<>>,
       !.collections = <<>>,
       !.lengths = <<>>]

\* hdev == INVALID_HANDLE_VALUE answered with an exception instead of "continue"
ThrowOnOpenFailure(st) == Throw(st, "CreateFile")

\* hdev == INVALID_HANDLE_VALUE: the failure is logged, then "continue"
OnOpenFailure(st) == st

\* _p->reports.emplace (id.id, hdev) for the ids of keys, without the test
\* that follows it
RouteAllUnchecked(st, keys, hdev) ==
    LET ids == {k[2] : k \in keys} IN
    [st EXCEPT !.reports =
        [id \in (DOMAIN st.reports) \cup ids |->
            IF id \in DOMAIN st.reports THEN st.reports[id] ELSE hdev]]

\* The loop over collection.reports: emplace (id.id, hdev), and the exception
\* when the id is already routed to another handle.
RouteAll(st, keys, hdev) ==
    LET ids == {k[2] : k \in keys} IN
    IF \E id \in ids : id \in DOMAIN st.reports /\ st.reports[id] # hdev
    THEN Throw(st, "Same Report ID on different handle.")
    ELSE [st EXCEPT !.reports =
            [id \in (DOMAIN st.reports) \cup ids |->
                IF id \in DOMAIN st.reports THEN st.reports[id] ELSE hdev]]

FirstQueries ==
    {"HidD_GetAttributes", "HidD_GetManufacturerString", "HidD_GetProductString"}

\* Whether the call named by fail is made for this table and so can fail.
CapsQueryFails(table, fail) ==
    \/ fail = "HidP_GetButtonCaps failed"
         /\ \E t \in 1..3 : Len(table.caps[t].button) > 0
    \/ fail = "HidP_GetValueCaps failed"
         /\ \E t \in 1..3 : Len(table.caps[t].value) > 0

\* The body of the while loop for an interface that was opened: hdev is the
\* handle CreateFile returned.  in.fail names the call that fails, if any;
\* CreateEvent reports its failure by returning NULL.
AddInterface(st, in) ==
    LET hdev == st.next
        event == IF in.fail = "CreateEvent" THEN NULL ELSE st.next + 1
        s0 == [st EXCEPT !.handles = @ \cup {hdev}]
        s1 == PushBack([st EXCEPT
                          !.next = @ + 2,
                          !.handles = @ \cup ({hdev, event} \ {NULL}),
                          !.lengths = Append(@, in.table.InputReportByteLength)],
                       hdev, event)
        s2 == [s1 EXCEPT !.first = FALSE]
        n == Len(s2.devices)
        reps == BuildReports(in.table)
        s3 == [s2 EXCEPT
                 !.devices[n].caps = CapsOf(in.table),
                 !.collections =
                     Append(@, [usage |-> in.table.UsagePage * 65536
                                          + in.table.Usage,
                                reports |-> reps])]
    IN  IF event = INVALID_HANDLE_VALUE THEN Throw(s0, "CreateEvent")
        ELSE IF st.first /\ in.fail \in FirstQueries THEN Throw(s1, in.fail)
        ELSE IF in.fail = "HidD_GetPreparsedData" THEN Throw(s2, in.fail)
        ELSE IF in.fail = "HidP_GetCaps failed" THEN Throw(s2, in.fail)
        ELSE IF CapsQueryFails(in.table, in.fail) THEN Throw(s3, in.fail)
        ELSE RouteAll(s3, DOMAIN reps, hdev)

\* One turn of "while (auto dev = enumerator.get (i++))".
OpenInterface(st, in) ==
    IF ~in.match THEN st
    ELSE IF in.fail = "CreateFile"
    THEN OnOpenFailure([st EXCEPT !.matched = @ + 1, !.openFailed = @ + 1])
    ELSE AddInterface([st EXCEPT !.matched = @ + 1], in)

\* After the loop: _p->interrupted_event = CreateEvent (NULL, FALSE, FALSE, NULL)
FinishOpen(st, ok) ==
    LET h == IF ok THEN st.next ELSE NULL IN
    IF h = INVALID_HANDLE_VALUE THEN Throw(st, "CreateEvent")
    ELSE [st EXCEPT !.status = "done",
                    !.interrupted_event = h,
                    !.next = @ + 1,
                    !.handles = @ \cup ({h} \ {NULL})]

\* RawDevice::RawDevice (const std::string &) on entry.  Besides the members
\* of the object: handles is the set of open handles of the process,
\* closedTwice the handles CloseHandle was given after they were closed, and
\* lengths[i] the input report length of the interface behind devices[i], as
\* the HID class driver has it.
NewDevice ==
    [status |-> "enum", err |-> "none", devices |-> <<>>, reports |-> <<>>,
     collections |-> <<>>, interrupted_event |-> INVALID_HANDLE_VALUE,
     first |-> TRUE, next |-> 1, handles |-> {}, matched |-> 0,
     openFailed |-> 0, lengths |-> <<>>, closedTwice |-> {}]

\* no RawDevice
NoDevice == [NewDevice EXCEPT !.status = "none"]

(* ------------------------------ duplication ---------------------------- *)
\* a re-open that hands back the handle it was given
SameHandle(h, fresh) == h

\* ReOpenFile (dev.file, ...): a new handle of the file object behind h
ReOpenFile(h, fresh) == fresh

\* RawDevice::RawDevice (const RawDevice &other) after its initializers: a
\* new PrivateImpl, and _report_desc copied from other.  The handles of other
\* stay open in the process.
CopyOf(o) ==
    [NewDevice EXCEPT !.status = "copy",
                      !.collections = o.collections,
                      !.first = FALSE,
                      !.next = o.next,
                      !.handles = o.handles]

\* One turn of "for (const auto &dev: other._p->devices)".  fail names the
\* call that fails, if any; CreateEvent reports its failure by returning NULL.
CopyInterface(st, o, fail) ==
    LET i == Len(st.devices) + 1
        hdev == ReOpenFile(o.devices[i].file, st.next)
        event == IF fail = "CreateEvent" THEN NULL ELSE st.next + 1
        s0 == [st EXCEPT !.handles = @ \cup {hdev}]
    IN  IF fail = "ReOpenFile" THEN Throw(st, "ReOpenFile")
        ELSE IF event = INVALID_HANDLE_VALUE THEN Throw(s0, "CreateEvent")
        ELSE PushBack([st EXCEPT
                         !.next = @ + 2,
                         !.handles = @ \cup ({hdev, event} \ {NULL}),
                         !.lengths = Append(@, o.lengths[i])],
                      hdev, event)

\* After the loop: _p->interrupted_event = CreateEvent (NULL, FALSE, FALSE, NULL)
FinishCopy(st, ok) == FinishOpen(st, ok)

(* ----------------------- the device under I/O -------------------------- *)
\* Capability tables of the interfaces the enumerator yields.  Button entries
\* are on usage page 9, value entries on usage page 1, and every entry has
\* its data index for usage, so that a field tells the entry it was made of.
Button(di, id) == Cap(9, di, id, FALSE)
Value(di, id) == Cap(1, di, id, FALSE)
ValueRange(di, id) == Cap(1, di, id, TRUE)

NoCaps == [button |-> <<>>, value |-> <<>>]

Table(len, in, out, feat) ==
    [UsagePage |-> 1, Usage |-> 2, InputReportByteLength |-> len,
     caps |-> <<in, out, feat>>]

\* interface A of the composite device: input report id 1 of 7 bytes
TableA == Table(7, [button |-> <<>>, value |-> <<Value(0, 1)>>], NoCaps, NoCaps)
\* interface B: input report id 2 of 16 bytes
TableB == Table(16, [button |-> <<>>, value |-> <<Value(0, 2)>>], NoCaps, NoCaps)

Opened(table) == [match |-> TRUE, fail |-> "none", table |-> table]

\* Devices as the constructor leaves them: the composite device of the
\* interfaces A and B, and the device of the single interface A.
OpenedDevices ==
    { FinishOpen(OpenInterface(OpenInterface(NewDevice, Opened(TableA)),
                               Opened(TableB)), TRUE),
      FinishOpen(OpenInterface(NewDevice, Opened(TableA)), TRUE) }

Ifaces == 1..Len(devices)

NoFirst == [iface |-> 0, n |-> 0, how |-> "none"]

InitHist ==
    [lastIntr |-> "never", why |-> "none", intrWhileBlocked |-> FALSE,
     wasBlocked |-> FALSE, first |-> NoFirst, envFail |-> FALSE,
     issued |-> {}, attempted |-> {}, cancelReq |-> {}, size |-> 0,
     readDuringWrite |-> FALSE,
     dataSeen |-> FALSE,
     intrSeen |-> FALSE]

\* CreateEvent (NULL, TRUE, TRUE, NULL): manual reset, initially signaled
CompletionEventInitial == TRUE
\* CreateEvent (NULL, FALSE, FALSE, NULL): auto reset, initially unsignaled
InterruptEventInitial == FALSE
ManualResetInterruptEvent == FALSE
InterruptEventAutoReset == TRUE

\* no capability lists under merge
NoMerge ==
    [stage |-> "none", type |-> 0, button |-> <<>>, value |-> <<>>,
     order |-> <<>>, reports |-> NoReports]

\* the kernel objects and the two threads, for the device d
InitThreads(d) ==
    /\ rawDevice = d
    /\ intr = InterruptEventInitial
    /\ evt = [i \in 1..Len(d.devices) |-> CompletionEventInitial]
    /\ fileSig = [i \in 1..Len(d.devices) |-> FALSE]
    /\ queued = [i \in 1..Len(d.devices) |-> 0]
    /\ ops = {}
    /\ rpc = "idle"
    /\ callNo = 0
    /\ bufLen = 0
    /\ timeout = 0
    /\ idx = 0
    /\ reads = <<>>
    /\ ret = WAIT_TIMEOUT
    /\ readN = 0
    /\ rres = NoResult
    /\ hist = InitHist
    /\ wpc = "idle"
    /\ wcalls = 0
    /\ wid = 0
    /\ wop = [iface |-> 0, size |-> 0, st |-> "none"]
    /\ wres = NoResult
    /\ writes = <<>>

(* --------------------------- the wait set ------------------------------ *)
\* handles = { interrupted_event, dev.event of every pending read }: index 0
\* is the interrupt event, index k the event of reads[k] (1-based here).
\* WaitForMultipleObjects with bWaitAll = FALSE returns the smallest index
\* of a signaled handle; -1 stands for "no handle is signaled".
FirstSignaled(intrN, evtN, rds) ==
    IF intrN THEN 0
    ELSE IF \E k \in 1..Len(rds) : evtN[rds[k].iface]
         THEN CHOOSE k \in 1..Len(rds) :
                 /\ evtN[rds[k].iface]
                 /\ \A j \in 1..(k-1) : ~evtN[rds[j].iface]
         ELSE -1

\* The state of the interrupt event after a wait was satisfied by it.
AfterWaitOn(intrN, k) ==
    IF k = 0 /\ InterruptEventAutoReset THEN FALSE ELSE intrN

\* A handle of the wait set becomes signaled: a thread blocked in
\* WaitForMultipleObjects is released with the index of that handle.
Signal(intrN, evtN) ==
    LET k == FirstSignaled(intrN, evtN, reads) IN
    IF rpc = "blocked" /\ k >= 0
    THEN /\ rpc' = "switch"
         /\ ret' = WAIT_OBJECT_0 + k
         /\ intr' = AfterWaitOn(intrN, k)
         /\ evt' = evtN
    ELSE /\ rpc' = rpc
         /\ ret' = ret
         /\ intr' = intrN
         /\ evt' = evtN

(* ------------------------------ AsyncRead ------------------------------ *)
\* ~AsyncRead of every element of reads: CancelIoEx on the reads still marked
\* pending.  CancelIoEx only requests the cancellation: the operation stays
\* in flight until the I/O manager completes it.
\* A destructor that cancels nothing: every read stays as it is.
CancelNothing(rds) == ops

CancelPending(rds) ==
    { IF /\ o.call = callNo
         /\ o.st = "pending"
         /\ o.slot \in 1..Len(rds)
         /\ rds[o.slot].pending
      THEN [o EXCEPT !.st = "cancelling"]
      ELSE o : o \in ops }

CancelledIfaces(rds) ==
    { rds[k].iface : k \in { j \in 1..Len(rds) : rds[j].pending } }

\* readReport ends (return or exception): the vector of AsyncRead is
\* destroyed, then the caller has the result.
Leave(result, rds, len, n, h) ==
    /\ rpc' = "idle"
    /\ rres' = result
    /\ bufLen' = len
    /\ readN' = n
    /\ ops' = CancelPending(rds)
    /\ reads' = <<>>
    /\ hist' = [h EXCEPT !.cancelReq = CancelledIfaces(rds)]

(* ------------------------------ readReport ----------------------------- *)
ReadCall(size, t) ==
    /\ rpc = "idle"
    /\ callNo < MaxCalls
    /\ rpc' = "issue"
    /\ callNo' = callNo + 1
    /\ bufLen' = size
    /\ timeout' = t
    /\ idx' = 1
    /\ reads' = <<>>
    /\ rres' = NoResult
    /\ hist' = [InitHist EXCEPT
                  !.lastIntr = IF hist.lastIntr = "during" THEN "before"
                               ELSE hist.lastIntr,
                  !.size = size,
                  !.dataSeen = \E i \in Ifaces : queued[i] > 0,
                  !.intrSeen = intr]
    /\ UNCHANGED <<devVars, writeVars, ioVars, ret, readN>>

\* One iteration of the loop over _p->devices that skips the interface.
IssueSkip ==
    /\ rpc = "issue"
    /\ idx <= Len(devices)
    /\ bufLen < devices[idx].caps.InputReportByteLength
    /\ idx' = idx + 1
    /\ UNCHANGED <<devVars, writeVars, ioVars, rpc, callNo, bufLen, timeout, reads, ret,
                   readN, rres, hist>>

Fits == idx <= Len(devices) /\ bufLen >= devices[idx].caps.InputReportByteLength

\* the file handle after the completion of a read whose OVERLAPPED had no
\* event
FileSignaledByRead(sig) == TRUE

\* AsyncRead: overlapped.hEvent = event.  The completion of an operation
\* signals the event of its OVERLAPPED; the file handle is signaled only by
\* the completion of an operation whose OVERLAPPED has no event, so a read
\* leaves the state sig of the file handle as it is.
FileAfterReadCompletion(sig) == sig

\* ReadFile resets the event of the OVERLAPPED when it starts the read.
EventLeftByReadFile(e) == e

EventResetByReadFile(e) == FALSE

\* The HID class driver takes a read only into a buffer that holds a whole
\* input report of the interface.
DriverAccepts == bufLen >= rawDevice.lengths[idx]

\* AsyncRead::read, ReadFile returning FALSE with ERROR_IO_PENDING.
IssuePending ==
    /\ rpc = "issue"
    /\ Fits
    /\ DriverAccepts
    /\ queued[idx] = 0
    /\ reads' = Append(reads, [iface |-> idx, pending |-> TRUE,
                               st |-> "pending", n |-> 0])
    /\ ops' = ops \cup {[iface |-> idx, call |-> callNo,
                         slot |-> Len(reads) + 1, st |-> "pending"]}
    /\ evt' = [evt EXCEPT ![idx] = EventResetByReadFile(@)]
    /\ fileSig' = [fileSig EXCEPT ![idx] = FALSE]
    /\ idx' = idx + 1
    /\ hist' = [hist EXCEPT !.issued = @ \cup {idx},
                            !.attempted = @ \cup {idx}]
    /\ UNCHANGED <<devVars, writeVars, intr, queued, rpc, callNo, bufLen, timeout, ret,
                   readN, rres>>

\* AsyncRead::read, ReadFile returning TRUE: a report was waiting.
IssueSync ==
    /\ rpc = "issue"
    /\ Fits
    /\ DriverAccepts
    /\ queued[idx] > 0
    /\ LET n == rawDevice.lengths[idx] IN
       /\ reads' = Append(reads, [iface |-> idx, pending |-> FALSE,
                                  st |-> "ok", n |-> n])
       /\ readN' = n
       /\ hist' = [hist EXCEPT
                     !.issued = @ \cup {idx},
                     !.attempted = @ \cup {idx},
                     !.first = IF @.how = "none"
                               THEN [iface |-> idx, n |-> n, how |-> "sync"]
                               ELSE @]
    /\ queued' = [queued EXCEPT ![idx] = @ - 1]
    /\ evt' = [evt EXCEPT ![idx] = TRUE]
    /\ fileSig' = [fileSig EXCEPT ![idx] = FileAfterReadCompletion(FALSE)]
    /\ rpc' = "report_read"
    /\ UNCHANGED <<devVars, writeVars, intr, ops, callNo, bufLen, timeout, idx, ret, rres>>

\* AsyncRead::read, ReadFile failing with another error: the exception
\* leaves readReport.
IssueError ==
    /\ rpc = "issue"
    /\ Fits
    /\ Leave(Thrown("ReadFile"),
             Append(reads, [iface |-> idx, pending |-> FALSE,
                            st |-> "none", n |-> 0]),
             bufLen, readN,
             [hist EXCEPT !.envFail = TRUE, !.attempted = @ \cup {idx}])
    /\ UNCHANGED <<devVars, writeVars, intr, evt, fileSig, queued, callNo, timeout, idx, ret>>

\* WaitForMultipleObjects (handles.size (), handles.data (), FALSE, ...) is
\* called: a signaled handle satisfies it at once, a zero timeout ends it at
\* once, otherwise the thread blocks.
WaitEnter ==
    /\ rpc = "issue"
    /\ idx > Len(devices)
    /\ LET k == FirstSignaled(intr, evt, reads) IN
       IF k >= 0
       THEN /\ rpc' = "switch"
            /\ ret' = WAIT_OBJECT_0 + k
            /\ intr' = AfterWaitOn(intr, k)
            /\ hist' = [hist EXCEPT
                          !.why = IF k = 0 THEN hist.lastIntr ELSE @,
                          !.lastIntr = IF k = 0 THEN "never" ELSE @]
       ELSE IF timeout = 0
       THEN /\ rpc' = "switch"
            /\ ret' = WAIT_TIMEOUT
            /\ UNCHANGED <<intr, hist>>
       ELSE /\ rpc' = "blocked"
            /\ hist' = [hist EXCEPT !.wasBlocked = TRUE]
            /\ UNCHANGED <<intr, ret>>
    /\ UNCHANGED <<devVars, writeVars, evt, fileSig, queued, ops, callNo, bufLen, timeout,
                   idx, reads, readN, rres>>

\* WaitForMultipleObjects fails.
WaitFail ==
    /\ rpc = "issue"
    /\ idx > Len(devices)
    /\ rpc' = "switch"
    /\ ret' = WAIT_FAILED
    /\ hist' = [hist EXCEPT !.envFail = TRUE]
    /\ UNCHANGED <<devVars, writeVars, ioVars, callNo, bufLen, timeout, idx, reads, readN, rres>>

\* The timeout of a blocked wait elapses (never with INFINITE).
WaitTimeout ==
    /\ rpc = "blocked"
    /\ timeout > 0
    /\ rpc' = "switch"
    /\ ret' = WAIT_TIMEOUT
    /\ UNCHANGED <<devVars, writeVars, ioVars, callNo, bufLen, timeout, idx, reads, readN,
                   rres, hist>>

\* AsyncRead::finish: pending = false, then GetOverlappedResult with
\* bWait = FALSE on the OVERLAPPED of the read.
FinishResult(r) ==
    IF r.st = "ok" THEN Returned(r.n) ELSE Thrown("GetOverlappedResult")

\* The switch without its "case WAIT_OBJECT_0": the interrupt index reaches
\* the default branch.
SwitchWithoutInterruptCase(w, rds) ==
    IF w = WAIT_TIMEOUT THEN Returned(0)
    ELSE IF w = WAIT_FAILED THEN Thrown("WaitForMultipleObject")
    ELSE LET i == w - WAIT_OBJECT_0 - 1 IN
         IF i < 0 \/ i >= Len(rds)
         THEN Thrown("Unexpected return value from WaitForMultipleObject")
         ELSE FinishResult(rds[i + 1])

\* The switch with "case WAIT_FAILED" falling into "return 0" and the index
\* of the default branch not tested.
SwitchReturningZero(w, rds) ==
    IF w = WAIT_OBJECT_0 \/ w = WAIT_TIMEOUT \/ w = WAIT_FAILED
    THEN Returned(0)
    ELSE LET i == w - WAIT_OBJECT_0 - 1 IN
         IF i < 0 \/ i >= Len(rds) THEN Returned(0)
         ELSE FinishResult(rds[i + 1])

\* What the switch on the wait result does: 0 for the value returned at
\* "return 0", otherwise the exception or the count finish () stores in read.
SwitchOutcome(w, rds) ==
    IF w = WAIT_OBJECT_0 \/ w = WAIT_TIMEOUT THEN Returned(0)
    ELSE IF w = WAIT_FAILED THEN Thrown("WaitForMultipleObject")
    ELSE LET i == w - WAIT_OBJECT_0 - 1 IN
         IF i < 0 \/ i >= Len(rds)
         THEN Thrown("Unexpected return value from WaitForMultipleObject")
         ELSE FinishResult(rds[i + 1])

\* reads after the switch: finish () clears the pending flag of reads[i].
AfterSwitch(w, rds) ==
    LET i == w - WAIT_OBJECT_0 - 1 IN
    IF w # WAIT_TIMEOUT /\ w # WAIT_FAILED /\ i >= 0 /\ i < Len(rds)
    THEN [rds EXCEPT ![i + 1].pending = FALSE]
    ELSE rds

\* The switch on ret and what follows it up to the end of readReport.
WaitSwitch ==
    /\ rpc = "switch"
    /\ LET out == SwitchOutcome(ret, reads)
           rds == AfterSwitch(ret, reads) IN
       IF out.kind = "ret" /\ ~(ret = WAIT_OBJECT_0 \/ ret = WAIT_TIMEOUT)
       THEN \* report_read: report.resize (read); return read
            Leave(Returned(out.val), rds, out.val, out.val, hist)
       ELSE Leave(out, rds, bufLen, readN, hist)
    /\ UNCHANGED <<devVars, writeVars, intr, evt, fileSig, queued, callNo, timeout, idx, ret>>

\* report_read reached by the goto of a read that completed at once.
ReportRead ==
    /\ rpc = "report_read"
    /\ Leave(Returned(readN), reads, readN, readN, hist)
    /\ UNCHANGED <<devVars, writeVars, intr, evt, fileSig, queued, callNo, timeout, idx, ret>>

(* ------------------------------ interruptRead -------------------------- *)
\* SetEvent (_p->interrupted_event)
InterruptRead ==
    /\ Signal(TRUE, evt)
    /\ hist' = IF rpc = "blocked"
               THEN [hist EXCEPT !.why = "during", !.lastIntr = "never",
                                 !.intrWhileBlocked = TRUE, !.intrSeen = TRUE]
               ELSE [hist EXCEPT !.lastIntr = IF rpc = "idle" THEN "before"
                                              ELSE "during",
                                 !.intrSeen = TRUE]
    /\ UNCHANGED <<devVars, writeVars, fileSig, queued, ops, callNo, bufLen, timeout, idx,
                   reads, readN, rres>>

(* --------------------------- the I/O manager --------------------------- *)
\* The HID class driver queues an input report of interface i.
DataArrive(i) ==
    /\ queued[i] < MaxQueued
    /\ queued' = [queued EXCEPT ![i] = @ + 1]
    /\ hist' = [hist EXCEPT !.dataSeen = TRUE]
    /\ UNCHANGED <<devVars, writeVars, intr, evt, fileSig, ops, readVars>>

\* The OVERLAPPED of operation o is the one of a live AsyncRead: o was issued
\* by the readReport call that is still running.
Live(o) == o.call = callNo /\ rpc # "idle"

\* The oldest read in flight on interface i takes the next report.
Oldest(i) ==
    CHOOSE o \in ops : /\ o.iface = i
                       /\ \A p \in ops : p.iface = i => o.call <= p.call

\* The I/O manager stores the status of a finished operation in its
\* OVERLAPPED.  The OVERLAPPED of a read of an earlier call was destroyed with
\* that call's vector: the store goes to freed memory, which the running call
\* may have got back for the same slot of its own vector (hit) or not.
StoreStatus(o, st, n, hit) ==
    IF Live(o) \/ (hit /\ rpc # "idle" /\ o.slot <= Len(reads))
    THEN [reads EXCEPT ![o.slot].st = st, ![o.slot].n = n]
    ELSE reads

\* A read in flight on interface i completes with a report.
ReadComplete(i, hit) ==
    /\ queued[i] > 0
    /\ \E o \in ops : o.iface = i
    /\ LET o == Oldest(i)
           n == rawDevice.lengths[i] IN
       /\ ops' = ops \ {o}
       /\ reads' = StoreStatus(o, "ok", n, hit)
       /\ hist' = [hist EXCEPT
                     !.first = IF Live(o) /\ @.how = "none"
                               THEN [iface |-> i, n |-> n,
                                     how |-> IF rpc = "blocked" THEN "wait"
                                             ELSE "other"]
                               ELSE @,
                     !.readDuringWrite =
                         @ \/ (wop.st = "pending" /\ wop.iface = i)]
    /\ queued' = [queued EXCEPT ![i] = @ - 1]
    /\ fileSig' = [fileSig EXCEPT ![i] = FileAfterReadCompletion(@)]
    /\ Signal(intr, [evt EXCEPT ![i] = TRUE])
    /\ UNCHANGED <<devVars, writeVars, callNo, bufLen, timeout, idx, readN, rres>>

\* A read whose cancellation was requested completes as aborted.
CancelComplete(i, hit) ==
    \E o \in ops :
       /\ o.iface = i
       /\ o.st = "cancelling"
       /\ ops' = ops \ {o}
       /\ reads' = StoreStatus(o, "aborted", 0, hit)
       /\ fileSig' = [fileSig EXCEPT ![i] = FileAfterReadCompletion(@)]
       /\ Signal(intr, [evt EXCEPT ![i] = TRUE])
       /\ UNCHANGED <<devVars, writeVars, queued, callNo, bufLen, timeout, idx, readN,
                      rres, hist>>

(* ------------------------------ writeReport --------------------------- *)
\* _p->reports.find (report[0]): the handle the report goes to, or
\* INVALID_HANDLE_VALUE for reports.end ().
RouteOrFirstInterface(id) ==
    IF id \in DOMAIN reports THEN reports[id] ELSE devices[1].file

Route(id) ==
    IF id \in DOMAIN reports THEN reports[id] ELSE INVALID_HANDLE_VALUE

\* The interface whose file handle is h.
IfaceOf(h) == CHOOSE i \in Ifaces : devices[i].file = h

\* writeReport up to the return of WriteFile: the lookup fails, or WriteFile
\* completes at once (how = "sync"), or starts an overlapped write
\* ("pending"), or fails ("error").
WriteCall(id, size, how) ==
    /\ wpc = "idle"
    /\ wcalls < MaxWrites
    /\ wcalls' = wcalls + 1
    /\ wid' = id
    /\ IF Route(id) = INVALID_HANDLE_VALUE
       THEN /\ wres' = Thrown("Report ID not found.")
            /\ UNCHANGED <<wpc, wop, writes, fileSig>>
       ELSE LET i == IfaceOf(Route(id)) IN
            /\ writes' = Append(writes, <<Route(id), size>>)
            /\ CASE how = "sync" ->
                      /\ wres' = Returned(size)
                      /\ fileSig' = [fileSig EXCEPT ![i] = TRUE]
                      /\ UNCHANGED <<wpc, wop>>
                 [] how = "pending" ->
                      /\ wpc' = "wait"
                      /\ wop' = [iface |-> i, size |-> size, st |-> "pending"]
                      /\ fileSig' = [fileSig EXCEPT ![i] = FALSE]
                      /\ wres' = NoResult
                 [] OTHER ->
                      /\ wres' = Thrown("WriteFile")
                      /\ UNCHANGED <<wpc, wop, fileSig>>
    /\ UNCHANGED <<devVars, intr, evt, queued, ops, readVars, hist>>

\* The overlapped write completes in the I/O manager.
WriteComplete ==
    /\ wop.st = "pending"
    /\ wop' = [wop EXCEPT !.st = "ok"]
    /\ fileSig' = [fileSig EXCEPT ![wop.iface] = TRUE]
    /\ UNCHANGED <<devVars, intr, evt, queued, ops, readVars, hist, wpc, wcalls,
                   wid, wres, writes>>

\* GetOverlappedResult (it->second, &overlapped, &written, TRUE): the
\* OVERLAPPED has no event, so the wait is on the file handle.  Released with
\* the write still pending, GetOverlappedResult reports no transfer (0 bytes)
\* or fails.
WriteWait(early) ==
    /\ wpc = "wait"
    /\ fileSig[wop.iface] \/ wop.st = "ok"
    /\ wpc' = "idle"
    /\ wres' = IF wop.st = "ok" THEN Returned(wop.size)
               ELSE IF early = "zero" THEN Returned(0)
               ELSE Thrown("GetOverlappedResult")
    /\ wop' = IF wop.st = "ok" THEN [iface |-> 0, size |-> 0, st |-> "none"]
              ELSE [wop EXCEPT !.st = "abandoned"]
    /\ UNCHANGED <<devVars, ioVars, readVars, hist, wcalls, wid, writes>>

Writer ==
    \/ \E id \in WriteIds, size \in WriteSizes,
          how \in {"sync", "pending", "error"} : WriteCall(id, size, how)
    \/ WriteComplete
    \/ \E early \in {"zero", "throw"} : WriteWait(early)

(* ------------------------- construction steps ------------------------- *)
ReportIds == 1..MaxReportId

\* the capability tables an enumerated interface may have
Tables ==
    UNION { { Table(len, NoCaps, NoCaps, NoCaps),
              Table(len, [button |-> <<>>, value |-> <<Value(0, r)>>],
                    NoCaps, NoCaps),
              Table(len, [button |-> <<>>, value |-> <<Value(0, r)>>],
                    [button |-> <<>>, value |-> <<Value(1, r)>>], NoCaps),
              Table(len, [button |-> <<Button(0, r), Button(2, r)>>,
                          value |-> <<ValueRange(1, r2)>>],
                    NoCaps,
                    [button |-> <<>>, value |-> <<Value(3, r)>>]) }
            : len \in {7, 16}, r \in ReportIds, r2 \in ReportIds }

Failures ==
    {"none", "CreateFile", "CreateEvent", "HidD_GetPreparsedData",
     "HidP_GetCaps failed", "HidP_GetButtonCaps failed",
     "HidP_GetValueCaps failed"} \cup FirstQueries

IterInputs == [match : BOOLEAN, fail : Failures, table : Tables]

\* the enumerator yields one more interface
EnumInterface(in) ==
    /\ rawDevice.status = "enum"
    /\ enumLeft > 0
    /\ rawDevice' = OpenInterface(rawDevice, in)
    /\ enumLeft' = enumLeft - 1
    /\ UNCHANGED <<other, merge, ioVars, readVars, hist, writeVars>>

\* the enumerator yields no more interface
EnumEnd(ok) ==
    /\ rawDevice.status = "enum"
    /\ enumLeft = 0
    /\ rawDevice' = FinishOpen(rawDevice, ok)
    /\ UNCHANGED <<other, enumLeft, merge, ioVars, readVars, hist, writeVars>>

InitOpen ==
    /\ InitThreads(NewDevice)
    /\ other = NoDevice
    /\ \E n \in 1..MaxSiblings : enumLeft = n
    /\ merge = NoMerge

NextOpen ==
    \/ \E in \in IterInputs : EnumInterface(in)
    \/ \E ok \in BOOLEAN : EnumEnd(ok)

(* -------------------------- duplication steps -------------------------- *)
CopyFailures == {"none", "ReOpenFile", "CreateEvent"}

\* the copy constructor is called on a constructed device
CopyBegin ==
    /\ rawDevice.status = "done"
    /\ other.status = "none"
    /\ other' = rawDevice
    /\ rawDevice' = CopyOf(rawDevice)
    /\ UNCHANGED <<enumLeft, merge, ioVars, readVars, hist, writeVars>>

\* the copy constructor takes the next interface of other
CopyStep(fail) ==
    /\ rawDevice.status = "copy"
    /\ Len(devices) < Len(other.devices)
    /\ rawDevice' = CopyInterface(rawDevice, other, fail)
    /\ UNCHANGED <<other, enumLeft, merge, ioVars, readVars, hist, writeVars>>

\* the copy constructor leaves its loop; the kernel objects of the new
\* device are as CreateEvent and ReOpenFile made them
CopyEnd(ok) ==
    /\ rawDevice.status = "copy"
    /\ Len(devices) = Len(other.devices)
    /\ rawDevice' = FinishCopy(rawDevice, ok)
    /\ intr' = InterruptEventInitial
    /\ evt' = [i \in 1..Len(devices) |-> CompletionEventInitial]
    /\ fileSig' = [i \in 1..Len(devices) |-> FALSE]
    /\ queued' = [i \in 1..Len(devices) |-> 0]
    /\ UNCHANGED <<other, enumLeft, merge, ops, readVars, hist, writeVars>>

\* The device is constructed and every CreateEvent of its constructor gave
\* an event: the threads of the model call readReport and writeReport only
\* on such a device.
Usable ==
    /\ rawDevice.status = "done"
    /\ interrupted_event # NULL
    /\ \A i \in 1..Len(devices) : devices[i].event # NULL

\* A device to read and write: one the path constructor built, or the copy
\* the copy constructor is about to make of it.
InitCopy ==
    /\ \E d \in OpenedDevices :
          \/ InitThreads(d) /\ other = NoDevice
          \/ InitThreads(CopyOf(d)) /\ other = d
    /\ enumLeft = 0
    /\ merge = NoMerge

(* ---------------------------- the merge alone -------------------------- *)
\* the sequence of the elements of the set of numbers S, ascending
RECURSIVE Ascending(_)
Ascending(S) ==
    IF S = {} THEN <<>>
    ELSE LET m == CHOOSE x \in S : \A y \in S : x <= y
         IN <<m>> \o Ascending(S \ {m})

\* capability lists as HidP_GetButtonCaps / HidP_GetValueCaps return them:
\* ascending in data index
CapLists(page) ==
    UNION { { [k \in 1..Cardinality(S) |->
                 Cap(page, Ascending(S)[k], ids[Ascending(S)[k]], FALSE)]
              : ids \in [S -> ReportIds] }
            : S \in { T \in SUBSET (0..MaxDataIndex) :
                        Cardinality(T) <= MaxMergeLen } }

InitMerge ==
    /\ InitThreads(NewDevice)
    /\ other = NoDevice
    /\ enumLeft = 0
    /\ \E t \in 1..3, bs \in CapLists(9), vs \in CapLists(1) :
          merge = [NoMerge EXCEPT !.stage = "caps", !.type = t,
                                  !.button = bs, !.value = vs]

\* the merge of the two lists and the add_field calls of one report type
MergeFields ==
    /\ merge.stage = "caps"
    /\ merge' = [merge EXCEPT
                   !.stage = "built",
                   !.order = MergeOrder(merge.button, merge.value),
                   !.reports = BuildType(NoReports, ReportTypes[merge.type],
                                         merge.button, merge.value)]
    /\ UNCHANGED <<rawDevice, other, enumLeft, ioVars, readVars, hist, writeVars>>

(* --------------------------- specifications ---------------------------- *)
Init ==
    /\ \E d \in OpenedDevices : InitThreads(d)
    /\ other = NoDevice
    /\ enumLeft = 0
    /\ merge = NoMerge

ReaderSteps ==
    \/ IssueSkip
    \/ IssuePending
    \/ IssueSync
    \/ IssueError
    \/ WaitEnter
    \/ WaitFail
    \/ WaitTimeout
    \/ WaitSwitch
    \/ ReportRead

IoManager ==
    \/ \E i \in Ifaces : DataArrive(i)
    \/ \E i \in Ifaces, hit \in BOOLEAN : ReadComplete(i, hit)
    \/ \E i \in Ifaces, hit \in BOOLEAN : CancelComplete(i, hit)

Reader ==
    \/ \E size \in BufSizes, t \in Timeouts : ReadCall(size, t)
    \/ ReaderSteps

\* A single readReport call, for the behaviours with a writer.
ReaderOnce ==
    \/ callNo = 0 /\ \E size \in BufSizes, t \in Timeouts : ReadCall(size, t)
    \/ ReaderSteps

Next == Reader \/ InterruptRead \/ IoManager

NextRW == ReaderOnce \/ IoManager \/ Writer

Spec == Init /\ [][Next]_vars

\* RawDevice::RawDevice (const std::string &)
SpecOpen == InitOpen /\ [][NextOpen]_vars

\* the merge of a button and a value capability list
SpecMerge == InitMerge /\ [][MergeFields]_vars

\* One thread in readReport and one in writeReport on the same device.
SpecRW == Init /\ [][NextRW]_vars

NextCopy ==
    \/ \E fail \in CopyFailures : CopyStep(fail)
    \/ \E ok \in BOOLEAN : CopyEnd(ok)
    \/ Usable /\ NextRW

\* RawDevice::RawDevice (const RawDevice &), and the two threads on the
\* device it made or on the device it was given.
SpecCopy == InitCopy /\ [][NextCopy]_vars

NextBuild ==
    \/ NextOpen
    \/ CopyBegin
    \/ \E fail \in CopyFailures : CopyStep(fail)
    \/ \E ok \in BOOLEAN : CopyEnd(ok)

\* RawDevice::RawDevice (const std::string &), then
\* RawDevice::RawDevice (const RawDevice &) on the device it made.
SpecBuild == InitOpen /\ [][NextBuild]_vars

\* A thread that WaitForMultipleObjects has released runs on: the scheduler
\* does not starve the ready reader.
SpecLive == Spec /\ WF_vars(WaitSwitch)

(* ------------------------------- claims -------------------------------- *)
AfterReturn == rpc = "idle" /\ callNo > 0

\* C1: when a readReport call has returned, no read it issued is still in
\* flight on any interface.
C1_NoReadOutstandingAtReturn ==
    rpc = "idle" => ~(\E o \in ops : o.call = callNo)

\* C4: when the read that finishes first (at issue time, or while the thread
\* is blocked in the wait) transferred n bytes, readReport returns n, the
\* buffer has length n, and every other read issued by the call was cancelled
\* with CancelIoEx before the return: none of them is left pending.
C4_FirstCompletedReadIsReturned ==
    (AfterReturn /\ hist.first.how \in {"sync", "wait"}) =>
        /\ rres = Returned(hist.first.n)
        /\ bufLen = hist.first.n
        /\ hist.issued \ {hist.first.iface} \subseteq hist.cancelReq
        /\ \A o \in ops : o.call = callNo => o.st = "cancelling"

\* C6: readReport with timeout 0, no input report waiting on any interface
\* and no interrupt signaled returns 0 and leaves the buffer length alone.
C6_ZeroTimeoutReturnsZero ==
    (AfterReturn /\ timeout = 0 /\ ~hist.dataSeen /\ ~hist.intrSeen
        /\ ~hist.envFail) =>
        (rres = Returned(0) /\ bufLen = hist.size)

\* C2: a readReport (timeout = -1) that interruptRead found blocked in its
\* wait eventually returns, and returns 0.
C2_InterruptUnblocksRead ==
    (hist.intrWhileBlocked /\ timeout = -1 /\ rpc # "idle")
        ~> (hist.intrWhileBlocked /\ rpc = "idle" /\ rres = Returned(0))

C2_Witness ==
    /\ hist.intrWhileBlocked
    /\ timeout = -1
    /\ rpc = "idle"
    /\ rres = Returned(0)

\* C3 as claimed: a readReport takes the interrupt outcome only if
\* interruptRead was called while that same call was in progress.
C3_InterruptOnlyDuringCall ==
    (rpc = "switch" /\ ret = WAIT_OBJECT_0) => hist.why = "during"

\* C3 as amended: a readReport takes the interrupt outcome only if
\* interruptRead was called since the device was opened or since the last
\* readReport that took the interrupt outcome: no signal ends two calls.
C3_InterruptOnlyOncePerSignal ==
    (rpc = "switch" /\ ret = WAIT_OBJECT_0) => hist.why \in {"during", "before"}

C3_Witness ==
    /\ callNo = 2
    /\ rpc = "switch"
    /\ ret = WAIT_OBJECT_0
    /\ hist.why = "before"

C4_Witness ==
    /\ AfterReturn
    /\ hist.first = [iface |-> 2, n |-> 16, how |-> "wait"]
    /\ rres = Returned(16)
    /\ hist.cancelReq = {1}

\* C5: writeReport with a report id that is no key of the router fails,
\* calls WriteFile on no handle and changes nothing else of the device, of the
\* kernel objects or of the reader.
C5_UnknownReportFailsWithoutWrite ==
    [][ (wcalls' # wcalls /\ wid' \notin DOMAIN reports) =>
           /\ wres' = Thrown("Report ID not found.")
           /\ writes' = writes
           /\ wop' = wop
           /\ wpc' = wpc
           /\ UNCHANGED <<devVars, ioVars, readVars>> ]_vars

C5_Witness ==
    /\ wcalls > 0
    /\ wid \notin DOMAIN reports
    /\ wres = Thrown("Report ID not found.")
    /\ writes = <<>>

(* ------------------------ claims on construction ----------------------- *)
Constructed == rawDevice.status = "done"

RECURSIVE FieldsIn(_, _)
\* the number of fields in the buckets keys of the mapping reps
FieldsIn(reps, keys) ==
    IF keys = {} THEN 0
    ELSE LET k == CHOOSE x \in keys : TRUE
         IN Len(reps[k]) + FieldsIn(reps, keys \ {k})

FieldCount(collection) == FieldsIn(collection.reports, DOMAIN collection.reports)

CapCount(caps) ==
    caps.NumberButtonCaps[1] + caps.NumberValueCaps[1]
    + caps.NumberButtonCaps[2] + caps.NumberValueCaps[2]
    + caps.NumberButtonCaps[3] + caps.NumberValueCaps[3]

FieldsMatchCaps ==
    \A i \in 1..Len(devices) :
        FieldCount(rawDevice.collections[i]) = CapCount(devices[i].caps)

DeclaredIds(i) == { k[2] : k \in DOMAIN rawDevice.collections[i].reports }

\* C9: in a constructed device no two interface records declare the same
\* report id, and the router maps every declared id, and nothing else, to the
\* open file handle of the interface record that declares it.
C9_RouterMapsIdToDeclaringInterface ==
    Constructed =>
        /\ \A i, j \in 1..Len(devices) :
              i # j => DeclaredIds(i) \cap DeclaredIds(j) = {}
        /\ DOMAIN reports = UNION { DeclaredIds(i) : i \in 1..Len(devices) }
        /\ \A i \in 1..Len(devices) : \A id \in DeclaredIds(i) :
              /\ reports[id] = devices[i].file
              /\ reports[id] \in rawDevice.handles

C9_Witness ==
    /\ Constructed
    /\ Len(devices) = 2
    /\ DeclaredIds(1) = {1, 2}
    /\ <<Input, 1>> \in DOMAIN rawDevice.collections[1].reports
    /\ <<Feature, 1>> \in DOMAIN rawDevice.collections[1].reports
    /\ DeclaredIds(2) = {}

(* -------------------------- claims on the merge ------------------------ *)
IsButton(cap) == cap.UsagePage = 9
IsValue(cap) == cap.UsagePage = 1

\* the data index of the capability entry a field was made of
FieldIndex(f) == f.usages.v[1] % 65536

NonDecreasing(s) ==
    \A i, j \in 1..Len(s) : i < j => s[i] <= s[j]

\* C10: the merge of a button list of A entries and a value list of B
\* entries, each ascending in data index, hands A + B entries to add_field in
\* ascending data-index order, keeps the order of each list, and leaves the
\* fields of every bucket in ascending data-index order.
C10_MergeIsAscendingAndStable ==
    merge.stage = "built" =>
        /\ Len(merge.order) = Len(merge.button) + Len(merge.value)
        /\ NonDecreasing([k \in 1..Len(merge.order) |-> merge.order[k].DataIndex])
        /\ SelectSeq(merge.order, IsButton) = merge.button
        /\ SelectSeq(merge.order, IsValue) = merge.value
        /\ FieldsIn(merge.reports, DOMAIN merge.reports)
              = Len(merge.button) + Len(merge.value)
        /\ \A key \in DOMAIN merge.reports :
              /\ key[1] = ReportTypes[merge.type]
              /\ NonDecreasing([k \in 1..Len(merge.reports[key]) |->
                                  FieldIndex(merge.reports[key][k])])

C10_Witness ==
    /\ merge.stage = "built"
    /\ [k \in 1..Len(merge.button) |-> merge.button[k].DataIndex] = <<0, 2>>
    /\ [k \in 1..Len(merge.value) |-> merge.value[k].DataIndex] = <<1, 3>>
    /\ [k \in 1..Len(merge.order) |-> merge.order[k].DataIndex] = <<0, 1, 2, 3>>
    /\ \E key \in DOMAIN merge.reports : Len(merge.reports[key]) = 3

(* ------------------------ claims on duplication ------------------------ *)
\* the device the threads use was made by the copy constructor
IsCopy == other.status = "done"

\* C11: readReport with a buffer of capacity c calls ReadFile on no interface
\* whose input report is longer than c, and when it waits it has a read
\* in flight or finished on every interface whose input report fits in c.
C11_ReadsOnlyWhereReportFits ==
    /\ \A i \in hist.attempted : rawDevice.lengths[i] <= hist.size
    /\ rpc = "blocked" =>
          \A i \in 1..Len(devices) :
              rawDevice.lengths[i] <= hist.size => i \in hist.issued

\* the handles a device holds, its router targets included
HeldHandles(d) ==
    (OwnedHandles(d) \cup {d.reports[id] : id \in DOMAIN d.reports})
        \ {NULL, INVALID_HANDLE_VALUE}

\* C12: while and after a RawDevice is copied, no file handle, completion
\* event, interrupt event or router target of the copy is a handle of the
\* original, every handle of the copy is open, and every handle of the
\* original stays open, also when the copy is abandoned on a failure.
C12_CopySharesNoHandle ==
    IsCopy =>
        /\ HeldHandles(rawDevice) \cap other.handles = {}
        /\ HeldHandles(rawDevice) \subseteq rawDevice.handles
        /\ other.handles \subseteq rawDevice.handles
        /\ HeldHandles(other) \subseteq other.handles

C12_Witness ==
    /\ IsCopy
    /\ Usable
    /\ Len(devices) = 2
    /\ Cardinality(HeldHandles(rawDevice)) = 5
    /\ Cardinality(HeldHandles(other)) = 5

(* -------------------- claims on the wait of readReport ----------------- *)
\* readReport is at reads[i].finish (&read): the wait returned the index of
\* the event of reads[ret - WAIT_OBJECT_0]
AtComplete ==
    /\ rpc = "switch"
    /\ ret \notin {WAIT_OBJECT_0, WAIT_TIMEOUT, WAIT_FAILED}
    /\ ret - WAIT_OBJECT_0 \in 1..Len(reads)

\* the read of this call behind wait index k is still in flight
InFlight(k) == \E o \in ops : o.call = callNo /\ o.slot = k

\* C13: when readReport calls finish () for the read at the index the wait
\* returned, the read this call issued at that index has completed.
C13_CompleteOnlyOnOwnCompletion ==
    AtComplete => ~InFlight(ret - WAIT_OBJECT_0)

(* --------------------------- claims on the writer ---------------------- *)
\* C14: with a reader in readReport on the same device, the wait of
\* writeReport for its overlapped write ends only when that write has
\* completed, whatever reads complete meanwhile, and a call that returns
\* normally returns the number of bytes of its write.
C14_WriteWaitsForOwnWrite ==
    [][ /\ (wpc = "wait" /\ wpc' = "idle") =>
              (wop.st = "ok" /\ wres' = Returned(wop.size))
        /\ (wcalls' # wcalls /\ wres'.kind = "ret") =>
              wres' = Returned(writes'[Len(writes')][2]) ]_vars

\* a read completed on the interface of a write in flight, and the write
\* returned its length after that
C14_Witness ==
    /\ wpc = "idle"
    /\ wres = Returned(7)
    /\ wop.st = "none"
    /\ Len(writes) = 1
    /\ rpc = "idle"
    /\ rres = Returned(7)
    /\ hist.readDuringWrite

(* ------------------- claims on the first readReport -------------------- *)
\* no report has arrived, interruptRead was not called and no call of the
\* operating system failed since the running readReport started
Quiet == ~hist.dataSeen /\ ~hist.intrSeen /\ ~hist.envFail

\* C15: in the first readReport on a device, whose completion events were
\* created signaled, the wait never returns the index of a read that is still
\* in flight; with no report, no interrupt and no failure the wait ends only
\* by its timeout, never with timeout -1, and the call returns 0.
C15_FirstReadWaitsForData ==
    callNo = 1 =>
        /\ AtComplete => (~InFlight(ret - WAIT_OBJECT_0) /\ hist.dataSeen)
        /\ (rpc = "switch" /\ Quiet) => (ret = WAIT_TIMEOUT /\ timeout >= 0)
        /\ (rpc = "idle" /\ Quiet) => rres = Returned(0)

C15_Witness ==
    /\ callNo = 1
    /\ rpc = "blocked"
    /\ timeout = -1
    /\ Quiet
    /\ hist.issued = {1, 2}
    /\ evt = <<FALSE, FALSE>>

(* ------------------- claims on the result of readReport ---------------- *)
\* Values WaitForMultipleObjects has besides WAIT_TIMEOUT and WAIT_FAILED:
\* WAIT_OBJECT_0 + k, and WAIT_ABANDONED_0 + k from 128 on.
WaitResults == 0..(MaxSiblings + 2) \cup {128, 129}

\* w is not the timeout, the failure, the interrupt index or the index of a
\* read of rds
Unexpected(w, rds) ==
    /\ w \notin {WAIT_OBJECT_0, WAIT_TIMEOUT, WAIT_FAILED}
    /\ w - WAIT_OBJECT_0 \notin 1..Len(rds)

\* C16: a readReport call that returns 0 returns it from the switch, on the
\* timeout or on the interrupt index; on WAIT_FAILED the call throws; and for
\* every other wait result that is not the index of a read of the call the
\* switch throws.
C16_ZeroOnlyOnTimeoutOrInterrupt ==
    [][ (rpc # "idle" /\ rpc' = "idle") =>
           /\ rres' = Returned(0) =>
                 (rpc = "switch" /\ ret \in {WAIT_OBJECT_0, WAIT_TIMEOUT})
           /\ (rpc = "switch" /\ ret = WAIT_FAILED) =>
                 rres' = Thrown("WaitForMultipleObject")
           /\ (rpc = "switch" /\ Unexpected(ret, reads)) =>
                 rres' = Thrown("Unexpected return value from WaitForMultipleObject")
           /\ \A w \in WaitResults :
                 Unexpected(w, reads) =>
                    SwitchOutcome(w, reads)
                       = Thrown("Unexpected return value from WaitForMultipleObject")
      ]_vars

C16_Witness ==
    /\ rpc = "idle"
    /\ callNo = 1
    /\ ret = WAIT_FAILED
    /\ rres = Thrown("WaitForMultipleObject")
    /\ hist.issued = {1, 2}

(* --------------------- claims on the use of a copy --------------------- *)
\* C17: in a copy of a RawDevice the router maps every report id the
\* original routes, to the file handle the copy re-opened for the same
\* interface, and every interface record has the input report length of the
\* record of the original it was made of.
C17_CopyRoutesLikeOriginal ==
    (IsCopy /\ rawDevice.status = "done") =>
        /\ \A id \in DOMAIN other.reports :
              /\ id \in DOMAIN reports
              /\ \E i \in 1..Len(devices) :
                    /\ other.devices[i].file = other.reports[id]
                    /\ reports[id] = devices[i].file
        /\ \A i \in 1..Len(devices) :
              devices[i].caps.InputReportByteLength
                 = other.devices[i].caps.InputReportByteLength

(* ------------------ claims on reports and the interrupt ---------------- *)
\* C18: when readReport returns 0, no read it issued has completed with a
\* report in the caller's buffer.
C18_ZeroMeansNoReportTaken ==
    (AfterReturn /\ rres = Returned(0)) => hist.first.how = "none"

(* ------------------------- claims on the handles ----------------------- *)
\* C19: in the path constructor and in the copy constructor no handle is
\* closed twice; the open handles are those the device under construction
\* holds, besides those of the device it is copied from; and when the
\* constructor fails, every handle it obtained has been closed, the handle of
\* the interface of the failing turn included.
C19_HandlesReleasedOnEveryPath ==
    /\ rawDevice.closedTwice = {}
    /\ rawDevice.handles = HeldHandles(rawDevice) \cup other.handles
    /\ rawDevice.status = "failed" =>
          /\ HeldHandles(rawDevice) = {}
          /\ rawDevice.handles = other.handles

\* the constructor failed in its second turn, with four handles obtained
C19_Witness ==
    /\ rawDevice.status = "failed"
    /\ rawDevice.err = "Same Report ID on different handle."
    /\ rawDevice.next = 5
    /\ rawDevice.handles = {}

====
